---- MODULE Spec2Model ----
(***************************************************************************)
(* RSA compatibility adapter of tarsnap (lib/crypto/crypto_compat.c).      *)
(*                                                                         *)
(* The adapter is compiled against one of several generations of the       *)
(* library, selected by OPENSSL_VERSION_NUMBER.  The variable `world`      *)
(* maps every build under consideration to the state of a process of that  *)
(* build: key handles (RSA objects), components (BIGNUMs) with their       *)
(* release accounting, the caller's output slots and the record of the     *)
(* last call.  A behaviour of Spec has one build; a behaviour of PairSpec  *)
(* runs the direct-field build and the accessor build on the same calls.   *)
(***************************************************************************)
EXTENDS Integers, Sequences, FiniteSets, TLC

VARIABLES world

vars == <<world>>

----------------------------------------------------------------------------
(* Bounds of the model. *)

(* Calls that allocate (new key, import, generate) in one behaviour. *)
MaxCalls == 3

(* Bit lengths of the moduli a caller imports. *)
BitChoices == {2047, 2048, 2049}

----------------------------------------------------------------------------
(* Builds: which side of the version thresholds the library is on. *)

Builds == {"pre098", "pre110", "v110"}

(* OPENSSL_VERSION_NUMBER < 0x10100000L: RSA is a struct with open fields. *)
DirectField(b) == b \in {"pre098", "pre110"}

(* OPENSSL_VERSION_NUMBER < 0x00908000L: no RSA_generate_key_ex. *)
LegacyGenerate(b) == b = "pre098"

----------------------------------------------------------------------------
(* Components. *)

NULL == 0

Roles == {"n", "e", "d", "p", "q", "dmp1", "dmq1", "iqmp"}
RoleSeq == <<"n", "e", "d", "p", "q", "dmp1", "dmq1", "iqmp">>
PubRoles == {"n", "e"}
PrivRoles == Roles \ PubRoles

RoleIndex(r) == CHOOSE i \in 1..Len(RoleSeq) : RoleSeq[i] = r

(* The transfer stage of a component in the accessor build. *)
Stage(r) ==
    IF r \in {"n", "e", "d"} THEN 1
    ELSE IF r \in {"p", "q"} THEN 2
    ELSE 3

NoArgs == [r \in Roles |-> NULL]

(* A BIGNUM value is kept as its bit length and its low word. *)
RECURSIVE WordBits(_)
WordBits(x) == IF x = 0 THEN 0 ELSE 1 + WordBits(x \div 2)

BN_word(x) == [bits |-> WordBits(x), low |-> x]

BN_num_bits(v) == v.bits

BN_num_bytes(v) == (BN_num_bits(v) + 7) \div 8

----------------------------------------------------------------------------
(* The state of one process. *)

NoCall ==
    [op |-> "none", key |-> NULL, a |-> NoArgs, slots |-> {}, ret |-> 0,
     stage |-> 0, gfail |-> "none", diag |-> 0, tmp |-> NULL,
     valid |-> FALSE]

Unset == -1

NoOut == [r \in Roles |-> Unset]

InitWorld ==
    [hrel |-> <<>>,     \* handle -> times released (0: live)
     hf |-> <<>>,       \* handle -> role -> component or NULL
     gen |-> <<>>,      \* handle -> returned by generate
     imps |-> <<>>,     \* handle -> the import calls made on it
     val |-> <<>>,      \* component -> value
     relA |-> <<>>,     \* component -> releases by the adapter
     relL |-> <<>>,     \* component -> releases by the library (handle)
     out |-> NoOut,     \* the caller's output slots
     call |-> NoCall,   \* the last call and its result
     ncalls |-> 0,      \* allocating calls so far
     gens |-> 0,        \* successful generate calls so far
     nbits |-> 2048,    \* modulus length of the caller's key material
     aborted |-> FALSE]

Handles(w) == 1..Len(w.hrel)
Comps(w) == 1..Len(w.val)
Live(w) == {h \in Handles(w) : w.hrel[h] = 0}

(* Release component c (if any) on behalf of the adapter / of the library. *)
BN_free(w, cs) ==
    [w EXCEPT !.relA = [c \in DOMAIN @ |-> IF c \in cs THEN @[c] + 1 ELSE @[c]]]

LibRelease(w, cs) ==
    [w EXCEPT !.relL = [c \in DOMAIN @ |-> IF c \in cs THEN @[c] + 1 ELSE @[c]]]

(* BN_new: a fresh component holding value v. *)
BN_new(w, v) ==
    [w EXCEPT !.val = Append(@, v), !.relA = Append(@, 0),
              !.relL = Append(@, 0)]

(* BN_set_word: component c takes the value of the word x. *)
BN_set_word(w, c, x) == [w EXCEPT !.val[c] = BN_word(x)]

(* RSA_new: a fresh, unpopulated key handle. *)
RSA_new(w) ==
    [w EXCEPT !.hrel = Append(@, 0), !.hf = Append(@, NoArgs),
              !.gen = Append(@, FALSE), !.imps = Append(@, <<>>)]

(* RSA_free: the handle releases every component it holds. *)
RSA_free(w, h) ==
    LET held == {w.hf[h][r] : r \in Roles} \ {NULL}
    IN  [LibRelease(w, held) EXCEPT !.hrel[h] = @ + 1]

----------------------------------------------------------------------------
(* The library's binding primitives (accessor build).  A primitive rejects *)
(* when a required field would stay empty, or when the library refuses the *)
(* values (reject); a rejecting primitive changes nothing.  An accepted    *)
(* non-null argument replaces the field, whose old content is released.    *)

Set0(w, h, args, required, reject) ==
    IF reject \/ \E r \in required : w.hf[h][r] = NULL /\ args[r] = NULL
    THEN [ok |-> FALSE, w |-> w]
    ELSE LET set == {r \in DOMAIN args : args[r] # NULL}
             old == {w.hf[h][r] : r \in set} \ {NULL}
         IN  [ok |-> TRUE,
              w |-> [LibRelease(w, old) EXCEPT !.hf[h] =
                        [r \in Roles |-> IF r \in set THEN args[r] ELSE @[r]]]]

RSA_set0_key(w, h, n, e, d, reject) ==
    Set0(w, h, [r \in {"n", "e", "d"} |->
                   IF r = "n" THEN n ELSE IF r = "e" THEN e ELSE d],
         {"n", "e"}, reject)

RSA_set0_factors(w, h, p, q, reject) ==
    Set0(w, h, [r \in {"p", "q"} |-> IF r = "p" THEN p ELSE q],
         {"p", "q"}, reject)

RSA_set0_crt_params(w, h, dmp1, dmq1, iqmp, reject) ==
    Set0(w, h, [r \in {"dmp1", "dmq1", "iqmp"} |->
                   IF r = "dmp1" THEN dmp1 ELSE IF r = "dmq1" THEN dmq1
                   ELSE iqmp],
         {"dmp1", "dmq1", "iqmp"}, reject)

----------------------------------------------------------------------------
(* crypto_compat_RSA_import *)

(* Faulty variant: the grouping of the private arguments is not checked. *)
ImportSanityNoGrouping(key, a) ==
    key # NULL /\ a["n"] # NULL /\ a["e"] # NULL

(* The assertions at the head of import. *)
ImportSanity(key, a) ==
    /\ key # NULL
    /\ a["n"] # NULL /\ a["e"] # NULL
    /\ IF a["d"] = NULL
       THEN \A r \in PrivRoles \ {"d"} : a[r] = NULL
       ELSE \A r \in PrivRoles \ {"d"} : a[r] # NULL

(* Faulty variant: the CRT coefficient is not stored. *)
ImportFieldsNoIqmp(w, key, a) ==
    [w EXCEPT !.hf[key] =
        [r \in Roles |->
            IF r \in PubRoles THEN a[r]
            ELSE IF a["d"] # NULL /\ r # "iqmp" THEN a[r]
            ELSE @[r]]]

(* Direct-field build: plain assignments, which cannot fail. *)
ImportFields(w, key, a) ==
    [w EXCEPT !.hf[key] =
        [r \in Roles |->
            IF r \in PubRoles THEN a[r]
            ELSE IF a["d"] # NULL THEN a[r]
            ELSE @[r]]]

(* Faulty variant: the labels do not fall through. *)
ErrFreesNoFallthrough(l) ==
    IF l >= 3 THEN {"n", "e", "d"}
    ELSE IF l >= 2 THEN {"p", "q"}
    ELSE {"dmp1", "dmq1", "iqmp"}

(* Faulty variant: every failure jumps to err3. *)
ErrFreesEverything(l) == Roles

(* The components released from label err<l> on: err3 falls through to   *)
(* err2 and err1.                                                        *)
ErrFrees(l) ==
    (IF l >= 3 THEN {"n", "e", "d"} ELSE {})
    \cup (IF l >= 2 THEN {"p", "q"} ELSE {})
    \cup {"dmp1", "dmq1", "iqmp"}

ImportErr(w, a, l) ==
    BN_free(w, {a[r] : r \in ErrFrees(l)} \ {NULL})

(* Accessor build: up to three binding calls; rej is the stage at which  *)
(* the library refuses the values (0: never).                            *)
ImportSet0(w, key, a, rej) ==
    IF a["d"] = NULL
    THEN LET s1 == RSA_set0_key(w, key, a["n"], a["e"], NULL, rej = 1)
         IN  IF ~s1.ok
             THEN [w |-> ImportErr(s1.w, a, 3), ret |-> -1, stage |-> 1]
             ELSE [w |-> s1.w, ret |-> 0, stage |-> 0]
    ELSE LET s1 == RSA_set0_key(w, key, a["n"], a["e"], a["d"], rej = 1)
             s2 == RSA_set0_factors(s1.w, key, a["p"], a["q"], rej = 2)
             s3 == RSA_set0_crt_params(s2.w, key, a["dmp1"], a["dmq1"],
                                       a["iqmp"], rej = 3)
         IN  IF ~s1.ok
             THEN [w |-> ImportErr(s1.w, a, 3), ret |-> -1, stage |-> 1]
             ELSE IF ~s2.ok
             THEN [w |-> ImportErr(s2.w, a, 2), ret |-> -1, stage |-> 2]
             ELSE IF ~s3.ok
             THEN [w |-> ImportErr(s3.w, a, 1), ret |-> -1, stage |-> 3]
             ELSE [w |-> s3.w, ret |-> 0, stage |-> 0]

crypto_compat_RSA_import(b, w, key, a, rej) ==
    IF ~ImportSanity(key, a)
    THEN [w |-> w, ret |-> 0, stage |-> 0, abort |-> TRUE]
    ELSE IF DirectField(b)
    THEN [w |-> ImportFields(w, key, a), ret |-> 0, stage |-> 0,
          abort |-> FALSE]
    ELSE LET r == ImportSet0(w, key, a, rej)
         IN  [w |-> r.w, ret |-> r.ret, stage |-> r.stage, abort |-> FALSE]

----------------------------------------------------------------------------
(* crypto_compat_RSA_export *)

(* The assertions at the head of export; slots are the non-null outputs. *)
ExportSanity(key, slots) ==
    /\ key # NULL
    /\ "n" \in slots /\ "e" \in slots
    /\ IF "d" \notin slots
       THEN \A r \in PrivRoles \ {"d"} : r \notin slots
       ELSE \A r \in PrivRoles \ {"d"} : r \in slots

(* Faulty variant: the two factors are exchanged. *)
ExportFieldsSwapped(w, key, slots) ==
    LET written == PubRoles \cup (IF "d" \in slots THEN PrivRoles ELSE {})
        from(r) == IF r = "p" THEN "q" ELSE IF r = "q" THEN "p" ELSE r
    IN  [r \in Roles |-> IF r \in written THEN w.hf[key][from(r)]
                         ELSE w.out[r]]

(* Direct-field build: n and e always, the private fields when d is asked. *)
ExportFields(w, key, slots) ==
    LET written == PubRoles \cup (IF "d" \in slots THEN PrivRoles ELSE {})
    IN  [r \in Roles |-> IF r \in written THEN w.hf[key][r] ELSE w.out[r]]

(* The library's accessors write each non-null output of their group. *)
Get0(w, h, group, slots, out) ==
    [r \in Roles |-> IF r \in group \cap slots THEN w.hf[h][r] ELSE out[r]]

RSA_get0_key(w, h, slots, out) == Get0(w, h, {"n", "e", "d"}, slots, out)

RSA_get0_factors(w, h, slots, out) == Get0(w, h, {"p", "q"}, slots, out)

RSA_get0_crt_params(w, h, slots, out) ==
    Get0(w, h, {"dmp1", "dmq1", "iqmp"}, slots, out)

(* Faulty variant: the private accessors are called for a public export. *)
ExportGet0Private(w, key, slots) ==
    RSA_get0_crt_params(w, key, Roles,
        RSA_get0_factors(w, key, Roles,
            RSA_get0_key(w, key, Roles, w.out)))

(* Faulty variant: the CRT parameters are not fetched. *)
ExportGet0NoCrt(w, key, slots) ==
    IF "d" \notin slots
    THEN RSA_get0_key(w, key, slots \ {"d"}, w.out)
    ELSE RSA_get0_factors(w, key, slots,
             RSA_get0_key(w, key, slots, w.out))

(* Accessor build. *)
ExportGet0(w, key, slots) ==
    IF "d" \notin slots
    THEN RSA_get0_key(w, key, slots \ {"d"}, w.out)
    ELSE RSA_get0_crt_params(w, key, slots,
             RSA_get0_factors(w, key, slots,
                 RSA_get0_key(w, key, slots, w.out)))

crypto_compat_RSA_export(b, w, key, slots) ==
    IF ~ExportSanity(key, slots)
    THEN [w |-> w, ret |-> 0, abort |-> TRUE]
    ELSE [w |-> [w EXCEPT !.out = IF DirectField(b)
                                  THEN ExportFields(w, key, slots)
                                  ELSE ExportGet0(w, key, slots)],
          ret |-> 0, abort |-> FALSE]

----------------------------------------------------------------------------
(* crypto_compat_RSA_valid_size *)

RSA_size(w, rsa) == BN_num_bytes(w.val[w.hf[rsa]["n"]])

RSA_bits(w, rsa) == BN_num_bits(w.val[w.hf[rsa]["n"]])

(* Faulty variant: either check suffices. *)
ValidSizeEither(b, w, rsa) ==
    RSA_size(w, rsa) = 256 \/ RSA_bits(w, rsa) = 2048

crypto_compat_RSA_valid_size(b, w, rsa) ==
    IF DirectField(b)
    THEN RSA_size(w, rsa) = 256
         /\ BN_num_bits(w.val[w.hf[rsa]["n"]]) = 2048
    ELSE RSA_size(w, rsa) = 256 /\ RSA_bits(w, rsa) = 2048

----------------------------------------------------------------------------
(* crypto_compat_RSA_generate_key *)

(* The value of component r of a key whose modulus has the given length. *)
KeyValue(r, bits, e) ==
    IF r = "n" THEN [bits |-> bits, low |-> 1]
    ELSE IF r = "e" THEN e
    ELSE IF r = "d" THEN [bits |-> bits, low |-> RoleIndex(r)]
    ELSE [bits |-> bits \div 2, low |-> RoleIndex(r)]

(* Fresh components, in argument order, for the roles RoleSeq[i..] that *)
(* are in shape, holding the values of a key of the given modulus length. *)
RECURSIVE NewComps(_, _, _, _, _)
NewComps(w, shape, i, bits, e) ==
    IF i > Len(RoleSeq) THEN [w |-> w, a |-> NoArgs]
    ELSE IF RoleSeq[i] \notin shape THEN NewComps(w, shape, i + 1, bits, e)
    ELSE LET w1 == BN_new(w, KeyValue(RoleSeq[i], bits, e))
             rest == NewComps(w1, shape, i + 1, bits, e)
         IN  [w |-> rest.w,
              a |-> [rest.a EXCEPT ![RoleSeq[i]] = Len(w1.val)]]

(* The library fills key with a fresh key pair: a modulus of exactly bits *)
(* bits, its own copy of the exponent e, and the private components.      *)
Populate(w, key, bits, e) ==
    LET made == NewComps(w, Roles, 1, bits, e)
    IN  [made.w EXCEPT !.hf[key] = made.a]

(* RSA_generate_key_ex(key, bits, e, NULL). *)
RSA_generate_key_ex(w, key, bits, e, fail) ==
    IF fail THEN [ok |-> FALSE, w |-> w]
    ELSE [ok |-> TRUE, w |-> Populate(w, key, bits, w.val[e])]

(* RSA_generate_key(bits, e, NULL, NULL) of the oldest generation. *)
RSA_generate_key(w, bits, e, fail) ==
    IF fail THEN [key |-> NULL, w |-> w]
    ELSE LET w1 == RSA_new(w)
         IN  [key |-> Len(w1.hrel),
              w |-> Populate(w1, Len(w1.hrel), bits, BN_word(e))]

GenResult(w, key, gfail, tmp) ==
    [w |-> w, key |-> key, gfail |-> gfail, tmp |-> tmp,
     diag |-> IF key = NULL THEN 1 ELSE 0]

(* Faulty variant: half the modulus length. *)
KeyBitsHalved == 2048 \div 2

(* The fixed policy: modulus length and public exponent. *)
KeyBits == 2048

KeyExponent == 65537

(* The oldest generation: one library call. *)
GenerateLegacy(w, fail) ==
    LET g == RSA_generate_key(w, KeyBits, KeyExponent, fail = "gen")
    IN  IF g.key = NULL
        THEN GenResult(g.w, NULL, "gen", NULL)
        ELSE GenResult(g.w, g.key, "none", NULL)

(* Faulty variant: err2 returns without reaching err1. *)
GenerateErrNoFallthrough(w, l, key, e) ==
    IF l >= 2 THEN RSA_free(w, key)
    ELSE IF l >= 1 THEN BN_free(w, {e})
    ELSE w

(* The releases made from label err<l> on: err2 falls through to err1. *)
GenerateErr(w, l, key, e) ==
    LET w2 == IF l >= 2 THEN RSA_free(w, key) ELSE w
    IN  IF l >= 1 THEN BN_free(w2, {e}) ELSE w2

(* Later generations: working exponent, handle, generation primitive. *)
GenerateEx(w, fail) ==
    IF fail = "bn"
    THEN GenResult(GenerateErr(w, 0, NULL, NULL), NULL, "bn", NULL)
    ELSE LET w1 == BN_set_word(BN_new(w, BN_word(0)), Len(w.val) + 1,
                               KeyExponent)
             e == Len(w1.val)
         IN  IF fail = "rsa"
             THEN GenResult(GenerateErr(w1, 1, NULL, e), NULL, "rsa", e)
             ELSE LET w2 == RSA_new(w1)
                      key == Len(w2.hrel)
                      g == RSA_generate_key_ex(w2, key, KeyBits, e,
                                               fail = "gen")
                  IN  IF ~g.ok
                      THEN GenResult(GenerateErr(g.w, 2, key, e), NULL,
                                     "gen", e)
                      ELSE GenResult(BN_free(g.w, {e}), key, "none", e)

crypto_compat_RSA_generate_key(b, w, fail) ==
    IF LegacyGenerate(b) THEN GenerateLegacy(w, fail) ELSE GenerateEx(w, fail)

----------------------------------------------------------------------------
(* The caller: what one call does to a process of build b. *)

Running(w) == ~w.aborted

(* The argument shapes that satisfy the preconditions. *)
ValidShapes == {PubRoles, Roles}

(* The caller allocates an empty handle. *)
DoNewKey(w) ==
    LET w1 == RSA_new(w)
    IN  [w1 EXCEPT !.call = [NoCall EXCEPT !.op = "new", !.ret = Len(w1.hrel)],
                   !.out = NoOut, !.ncalls = @ + 1]

(* The caller creates the components of shape from its key material and *)
(* passes them to import; a failed assertion aborts the process.        *)
DoImport(b, w, key, shape, rej) ==
    LET made == NewComps([w EXCEPT !.out = NoOut], shape, 1, w.nbits,
                         BN_word(KeyExponent))
        r == crypto_compat_RSA_import(b, made.w, key, made.a, rej)
        c == [NoCall EXCEPT !.op = "import", !.key = key, !.a = made.a,
                            !.ret = r.ret, !.stage = r.stage]
    IN  IF r.abort
        THEN [r.w EXCEPT !.call = c, !.aborted = TRUE]
        ELSE [r.w EXCEPT !.call = c, !.ncalls = @ + 1,
                         !.imps[key] = Append(@, [a |-> made.a,
                                                  stage |-> r.stage])]

(* The caller passes fresh output slots to export. *)
DoExport(b, w, key, slots) ==
    LET r == crypto_compat_RSA_export(b, [w EXCEPT !.out = NoOut], key, slots)
        c == [NoCall EXCEPT !.op = "export", !.key = key, !.slots = slots,
                            !.ret = r.ret]
    IN  IF r.abort
        THEN [r.w EXCEPT !.call = c, !.aborted = TRUE]
        ELSE [r.w EXCEPT !.call = c]

DoValidate(b, w, key) ==
    [w EXCEPT !.call = [NoCall EXCEPT !.op = "validate", !.key = key,
                           !.valid = crypto_compat_RSA_valid_size(b, w, key)],
              !.out = NoOut]

DoGenerate(b, w, fail) ==
    LET g == crypto_compat_RSA_generate_key(b, w, fail)
        c == [NoCall EXCEPT !.op = "generate", !.ret = g.key,
                            !.gfail = g.gfail, !.diag = g.diag,
                            !.tmp = g.tmp]
    IN  IF g.key = NULL
        THEN [g.w EXCEPT !.call = c, !.out = NoOut, !.ncalls = @ + 1]
        ELSE [g.w EXCEPT !.call = c, !.out = NoOut, !.ncalls = @ + 1,
                         !.gens = @ + 1, !.gen[g.key] = TRUE]

(* The caller releases a handle it owns. *)
DoFreeKey(w, key) ==
    [RSA_free(w, key) EXCEPT !.call = [NoCall EXCEPT !.op = "free",
                                                     !.key = key,
                                                     !.a = w.hf[key]],
                             !.out = NoOut]

----------------------------------------------------------------------------
(* Actions: the same call is made in every build under consideration. *)

AllRunning == \A b \in DOMAIN world : Running(world[b])

LiveIn(key) == \A b \in DOMAIN world : key \in Live(world[b])

Budget == \A b \in DOMAIN world : world[b].ncalls < MaxCalls

NewKey ==
    /\ AllRunning
    /\ Budget
    /\ world' = [b \in DOMAIN world |-> DoNewKey(world[b])]

ImportCall(keys, shapes, rejs) ==
    /\ AllRunning
    /\ \E key \in keys, shape \in shapes, rej \in rejs :
          /\ key # NULL => LiveIn(key)
          /\ Budget
          /\ world' = [b \in DOMAIN world |->
                          DoImport(b, world[b], key, shape, rej)]

ExportCall(keys, shapes) ==
    /\ AllRunning
    /\ \E key \in keys, slots \in shapes :
          /\ key # NULL => LiveIn(key)
          /\ world' = [b \in DOMAIN world |->
                          DoExport(b, world[b], key, slots)]

Import == ImportCall(1..MaxCalls, ValidShapes, 0..3)

Export == ExportCall(1..MaxCalls, ValidShapes)

Validate ==
    /\ AllRunning
    /\ \E key \in 1..MaxCalls :
          /\ LiveIn(key)
          /\ \A b \in DOMAIN world : world[b].hf[key]["n"] # NULL
          /\ world' = [b \in DOMAIN world |-> DoValidate(b, world[b], key)]

(* fail names the library call that fails, if the build makes that call. *)
Generate ==
    /\ AllRunning
    /\ Budget
    /\ \E fail \in {"none", "bn", "rsa", "gen"} :
          world' = [b \in DOMAIN world |-> DoGenerate(b, world[b], fail)]

FreeKey ==
    /\ AllRunning
    /\ \E key \in 1..MaxCalls :
          /\ LiveIn(key)
          /\ world' = [b \in DOMAIN world |-> DoFreeKey(world[b], key)]

Init ==
    \E b \in Builds, nbits \in BitChoices :
        world = [x \in {b} |-> [InitWorld EXCEPT !.nbits = nbits]]

Next == NewKey \/ Import \/ Export \/ Validate \/ Generate \/ FreeKey

Spec == Init /\ [][Next]_vars

----------------------------------------------------------------------------
(* Calls with arbitrary arguments: any subset of the optional arguments, *)
(* a null or live key.                                                   *)

ImportAny == ImportCall(0..MaxCalls, SUBSET Roles, 0..3)

ExportAny == ExportCall(0..MaxCalls, SUBSET Roles)

AssertInit == \E b \in Builds : world = [x \in {b} |-> InitWorld]

AssertNext == NewKey \/ ImportAny \/ ExportAny

AssertSpec == AssertInit /\ [][AssertNext]_vars

(* The direct-field build and the accessor build side by side, the       *)
(* library accepting every binding.                                      *)

ImportAccepted == ImportCall(1..MaxCalls, ValidShapes, {0})

PairInit == world = [x \in {"pre110", "v110"} |-> InitWorld]

PairNext == NewKey \/ ImportAccepted \/ Export \/ Generate \/ FreeKey

PairSpec == PairInit /\ [][PairNext]_vars

----------------------------------------------------------------------------
(* Vocabulary of the properties. *)

(* Total number of releases of component c. *)
Rel(w, c) == w.relA[c] + w.relL[c]

Supplied(a) == {r \in Roles : a[r] # NULL}

PrivAll(w, h) == \A r \in PrivRoles : w.hf[h][r] # NULL

PrivNone(w, h) == \A r \in PrivRoles : w.hf[h][r] = NULL

(* The preconditions of import and export, as the interface states them. *)
ArgsOK(key, shape) == key # NULL /\ (shape = PubRoles \/ shape = Roles)

(* The bytes needed to serialize a value of the given bit length. *)
BytesFor(bits) == CHOOSE k \in 0..bits : 8 * k >= bits /\ 8 * k < bits + 8

(* Nothing that existed in w has changed in w2, except the call record   *)
(* and the caller's output slots.                                        *)
SameObjects(w, w2) ==
    /\ w2.hf = w.hf /\ w2.hrel = w.hrel
    /\ w2.relA = w.relA /\ w2.relL = w.relL /\ w2.val = w.val

----------------------------------------------------------------------------
(* C1, as amended: after an import that failed at stage k and the release  *)
(* of its key handle by the caller, every supplied component has been      *)
(* released exactly once: the components of stages >= k (not absorbed) by  *)
(* the adapter, the components of stages < k (absorbed) by the library on  *)
(* behalf of the handle.                                                   *)
C1_FailedImportReleasesOnce ==
    \A b \in DOMAIN world :
        LET w == world[b]
        IN  \A h \in Handles(w) : \A i \in DOMAIN w.imps[h] :
                LET k == w.imps[h][i].stage
                    a == w.imps[h][i].a
                IN  (w.hrel[h] > 0 /\ k >= 1) =>
                        \A r \in Supplied(a) :
                            /\ Rel(w, a[r]) = 1
                            /\ Stage(r) >= k => w.relA[a[r]] = 1
                            /\ Stage(r) < k => w.relL[a[r]] = 1

(* C1 as stated: the components not absorbed are released by the caller's  *)
(* cleanup (the release of the handle), the absorbed ones by the adapter.  *)
C1_AsStated ==
    \A b \in DOMAIN world :
        LET w == world[b]
        IN  \A h \in Handles(w) : \A i \in DOMAIN w.imps[h] :
                LET k == w.imps[h][i].stage
                    a == w.imps[h][i].a
                IN  (w.hrel[h] > 0 /\ k >= 1) =>
                        \A r \in Supplied(a) :
                            /\ Rel(w, a[r]) = 1
                            /\ Stage(r) >= k => w.relL[a[r]] = 1
                            /\ Stage(r) < k => w.relA[a[r]] = 1

(* A private import failed at stage 2 and the caller released the handle. *)
C1_Witness ==
    \E b \in DOMAIN world :
        LET w == world[b]
        IN  \E h \in Handles(w) : \E i \in DOMAIN w.imps[h] :
                /\ w.hrel[h] = 1
                /\ w.imps[h][i].stage = 2
                /\ Supplied(w.imps[h][i].a) = Roles

----------------------------------------------------------------------------
(* C2: an import call that fails at stage k returns -1, has released       *)
(* exactly the supplied components of stages >= k, has left those of       *)
(* stages < k in the handle unreleased and has not released the handle; an *)
(* import call in which no stage fails returns 0, has released none of the *)
(* supplied components and has put all of them into the handle.            *)
C2_StagedRollback ==
    [][\A b \in DOMAIN world :
        LET w == world[b]
            w2 == world'[b]
            c == w2.call
            k == c.stage
        IN  (c.op = "import" /\ ~w2.aborted) =>
                /\ (k = 0 /\ c.ret = 0) \/ (k \in 1..3 /\ c.ret = -1)
                /\ w2.hrel = w.hrel
                /\ \A x \in Comps(w) : w2.relA[x] = w.relA[x]
                /\ \A r \in Roles :
                    IF c.a[r] = NULL
                    THEN w2.hf[c.key][r] = w.hf[c.key][r]
                    ELSE IF k >= 1 /\ Stage(r) >= k
                    THEN /\ w2.relA[c.a[r]] = 1 /\ w2.relL[c.a[r]] = 0
                         /\ w2.hf[c.key][r] = w.hf[c.key][r]
                    ELSE /\ Rel(w2, c.a[r]) = 0
                         /\ w2.hf[c.key][r] = c.a[r]]_vars

(* The last call was a private import that failed at stage 2. *)
C2_Witness ==
    \E b \in DOMAIN world :
        LET c == world[b].call
        IN  c.op = "import" /\ c.stage = 2 /\ c.ret = -1
            /\ world[b].hf[c.key]["d"] = c.a["d"]

----------------------------------------------------------------------------
(* C3: after a successful import on a fresh handle, an export on that      *)
(* handle yields in every supplied output slot a live component with the   *)
(* value of the component imported for that slot.                          *)
C3_RoundTrip ==
    \A b \in DOMAIN world :
        LET w == world[b]
            c == w.call
        IN  (/\ c.op = "export" /\ ~w.aborted
             /\ ~w.gen[c.key]
             /\ Len(w.imps[c.key]) = 1
             /\ w.imps[c.key][1].stage = 0) =>
                \A r \in c.slots \cap Supplied(w.imps[c.key][1].a) :
                    /\ w.out[r] \in Comps(w)
                    /\ Rel(w, w.out[r]) = 0
                    /\ w.val[w.out[r]] = w.val[w.imps[c.key][1].a[r]]

(* All eight components were imported and all eight slots exported. *)
C3_Witness ==
    \E b \in DOMAIN world :
        LET w == world[b]
            c == w.call
        IN  /\ c.op = "export" /\ c.slots = Roles /\ ~w.gen[c.key]
            /\ Len(w.imps[c.key]) = 1
            /\ w.imps[c.key][1].stage = 0
            /\ Supplied(w.imps[c.key][1].a) = Roles

----------------------------------------------------------------------------
(* C4: validate returns true exactly when the modulus of the key           *)
(* serializes to 256 bytes and has 2048 bits, and changes nothing.         *)
C4_ValidIffPolicy ==
    [][\A b \in DOMAIN world :
        LET w == world[b]
            w2 == world'[b]
            c == w2.call
            bits == w.val[w.hf[c.key]["n"]].bits
        IN  c.op = "validate" =>
                /\ c.valid = (BytesFor(bits) = 256 /\ bits = 2048)
                /\ SameObjects(w, w2)
                /\ ~w2.aborted]_vars

(* validate has answered false for a 256-byte modulus of 2047 bits. *)
C4_Witness ==
    \E b \in DOMAIN world :
        LET w == world[b]
            c == w.call
        IN  /\ c.op = "validate" /\ ~c.valid
            /\ w.val[w.hf[c.key]["n"]].bits = 2047

----------------------------------------------------------------------------
(* C5: an import or export call whose key is null, or whose non-null       *)
(* arguments are neither exactly n and e nor all eight, aborts on an       *)
(* assertion before any component is placed into or read from a handle.    *)
C5_BadArgsAbort ==
    [][\A b \in DOMAIN world :
        LET w == world[b]
            w2 == world'[b]
            c == w2.call
        IN  (\/ c.op = "import" /\ ~ArgsOK(c.key, Supplied(c.a))
             \/ c.op = "export" /\ ~ArgsOK(c.key, c.slots)) =>
                /\ w2.aborted
                /\ w2.hf = w.hf /\ w2.hrel = w.hrel
                /\ \A x \in Comps(w2) : Rel(w2, x) = IF x \in Comps(w)
                                                    THEN Rel(w, x) ELSE 0
                /\ w2.out = NoOut]_vars

(* Import was called with d but without p, and the process has aborted. *)
C5_Witness ==
    \E b \in DOMAIN world :
        LET c == world[b].call
        IN  /\ c.op = "import" /\ world[b].aborted
            /\ c.a["d"] # NULL /\ c.a["p"] = NULL

----------------------------------------------------------------------------
----------------------------------------------------------------------------
(* C7: generate releases what it created.  Failing to allocate the working *)
(* exponent: nothing is created or released.  Failing to allocate the      *)
(* handle: the working exponent is released once.  Failure of the          *)
(* generation primitive: the handle and the working exponent are released  *)
(* once each (in the oldest generation the primitive allocates the handle  *)
(* itself and the adapter creates nothing).  Every failure reports one     *)
(* diagnostic and returns no handle.  Success releases the working         *)
(* exponent once and returns a live handle whose components are            *)
(* unreleased.                                                             *)
C7_GenerateReleases ==
    [][\A b \in DOMAIN world :
        LET w == world[b]
            w2 == world'[b]
            c == w2.call
            newH == Handles(w2) \ Handles(w)
            newC == Comps(w2) \ Comps(w)
        IN  c.op = "generate" =>
                /\ \A x \in Comps(w) : Rel(w2, x) = Rel(w, x)
                /\ \A h \in Handles(w) : w2.hrel[h] = w.hrel[h]
                /\ c.gfail # "none" => c.ret = NULL /\ c.diag = 1
                /\ c.gfail = "bn" => newH = {} /\ newC = {}
                /\ c.gfail = "rsa" =>
                       /\ newH = {} /\ newC = {c.tmp}
                       /\ w2.relA[c.tmp] = 1 /\ w2.relL[c.tmp] = 0
                /\ (c.gfail = "gen" /\ ~LegacyGenerate(b)) =>
                       /\ Cardinality(newH) = 1
                       /\ \A h \in newH : w2.hrel[h] = 1
                       /\ c.tmp \in newC
                       /\ \A x \in newC : Rel(w2, x) = 1
                /\ (c.gfail = "gen" /\ LegacyGenerate(b)) =>
                       newH = {} /\ newC = {}
                /\ c.gfail = "none" =>
                       /\ newH = {c.ret} /\ w2.hrel[c.ret] = 0
                       /\ c.diag = 0
                       /\ \A r \in Roles : /\ w2.hf[c.ret][r] \in newC
                                           /\ Rel(w2, w2.hf[c.ret][r]) = 0
                       /\ ~LegacyGenerate(b) =>
                              /\ c.tmp \in newC
                              /\ w2.relA[c.tmp] = 1 /\ w2.relL[c.tmp] = 0]_vars

(* The generation primitive failed after the working exponent and the    *)
(* handle were created.                                                  *)
C7_Witness ==
    \E b \in DOMAIN world :
        LET c == world[b].call
        IN  c.op = "generate" /\ c.gfail = "gen" /\ c.tmp # NULL

----------------------------------------------------------------------------
(* C8: an export call whose preconditions hold returns 0, writes the       *)
(* handle's components into the supplied slots and into no other slot, and *)
(* changes neither the handle nor any component; when a handle is          *)
(* released, each component it holds is released exactly once.             *)
C8_ExportBorrows ==
    [][\A b \in DOMAIN world :
        LET w == world[b]
            w2 == world'[b]
            c == w2.call
        IN  /\ (c.op = "export" /\ ArgsOK(c.key, c.slots)) =>
                /\ ~w2.aborted /\ c.ret = 0
                /\ \A r \in Roles :
                       w2.out[r] = IF r \in c.slots THEN w.hf[c.key][r]
                                   ELSE Unset
                /\ SameObjects(w, w2)
            /\ c.op = "free" =>
                \A r \in Supplied(c.a) :
                    /\ w2.relL[c.a[r]] = w.relL[c.a[r]] + 1
                    /\ Rel(w2, c.a[r]) = 1]_vars

(* n and e alone were exported from a private key. *)
C8_Witness ==
    \E b \in DOMAIN world :
        LET w == world[b]
            c == w.call
        IN  /\ c.op = "export" /\ c.slots = PubRoles /\ c.ret = 0
            /\ PrivAll(w, c.key)
            /\ w.out["d"] = Unset /\ w.out["n"] = w.hf[c.key]["n"]

----------------------------------------------------------------------------
(* C9: every handle returned by generate is a private key with a 2048-bit  *)
(* modulus and public exponent 65537 on which validate answers true, and   *)
(* every successful generate call returns a handle of its own.             *)
C9_GeneratedKeysValid ==
    \A b \in DOMAIN world :
        LET w == world[b]
        IN  /\ \A h \in Live(w) :
                (w.gen[h] /\ w.imps[h] = <<>>) =>
                    /\ PrivAll(w, h)
                    /\ w.val[w.hf[h]["n"]].bits = 2048
                    /\ w.val[w.hf[h]["e"]] = BN_word(65537)
                    /\ crypto_compat_RSA_valid_size(b, w, h)
            /\ (w.call.op = "validate" /\ w.gen[w.call.key]
                /\ w.imps[w.call.key] = <<>>) => w.call.valid
            /\ Cardinality({h \in Handles(w) : w.gen[h]}) = w.gens

(* Two generate calls have returned two live handles. *)
C9_Witness ==
    \E b \in DOMAIN world :
        LET w == world[b]
        IN  /\ w.call.op = "generate" /\ w.call.ret # NULL
            /\ \E h \in Live(w) : h # w.call.ret /\ w.gen[h]

----------------------------------------------------------------------------
(* C10 as stated: on the same calls, the library accepting every binding,  *)
(* the direct-field build and the accessor build return the same results,  *)
(* export the same components and leave every handle and every component   *)
(* with the same content and the same release count.                       *)
Agree(w1, w2) ==
    /\ w1.call = w2.call
    /\ w1.out = w2.out
    /\ w1.val = w2.val
    /\ w1.hf = w2.hf /\ w1.hrel = w2.hrel
    /\ w1.relA = w2.relA /\ w1.relL = w2.relL

C10_AsStated == Agree(world["pre110"], world["v110"])

(* C10, as amended: the same, as long as every import was made on a handle *)
(* that was still unpopulated: neither generated nor imported into before. *)
C10_AgreeOnFreshHandles ==
    (\A h \in Handles(world["v110"]) :
        /\ Len(world["v110"].imps[h]) <= 1
        /\ world["v110"].gen[h] => world["v110"].imps[h] = <<>>) =>
        Agree(world["pre110"], world["v110"])

(* All eight components exported in both builds after one private import. *)
C10_Witness ==
    LET w == world["v110"]
        c == w.call
    IN  /\ c.op = "export" /\ c.slots = Roles
        /\ Len(w.imps[c.key]) = 1 /\ ~w.gen[c.key]
        /\ w.out["iqmp"] = w.imps[c.key][1].a["iqmp"]
        /\ w.out["iqmp"] # NULL
        /\ world["pre110"].out = w.out

====
